---- MODULE Spec2Model ----
(***************************************************************************)
(* A model of two parts of the form-js viewer:                             *)
(*   - RepeatRenderManager (features/repeatRender/RepeatRenderManager.js): *)
(*     the Repeater and RepeatFooter components of a repeatable field;     *)
(*   - Numberfield (render/components/form-fields/Number.js): the text     *)
(*     cache, the value handed to the form and the arrow stepping.         *)
(* Both are Preact function components: a render reads the form state and  *)
(* creates the handlers (closures over what that render read); a handler   *)
(* runs when its button or input fires, and the next render happens later. *)
(* The render and every handler are therefore separate actions.            *)
(***************************************************************************)
EXTENDS Integers, Sequences, FiniteSets, TLC

(***************************************************************************)
(* Bounds of the model.                                                    *)
(***************************************************************************)
\* longest backing array of a repeater (collapsing then happens under the
\* configured caps 1..MaxCap; the default cap of 5 is never exceeded)
MaxItems == 3
\* largest nonCollapsedItems a field definition configures
MaxCap == 2
\* deepest nesting level of a repeater (0: not nested)
MaxDepth == 2
\* longest text typed or pasted into a number field
MaxLen == 3
\* largest magnitude (in units) from which the arrows still step
MaxAbs == 2

VARIABLES
    \* ---- RepeatRenderManager ----
    field,              \* the repeater's field definition (props.field)
    data,               \* the array at the repeater's data path in the form state
    sharedRepeatState,  \* the state behind useSharedState: [isCollapsed]
    rendered,           \* what the last render of Repeater/RepeatFooter read
    parent,             \* props.indexes and the enclosing LocalExpressionContext
    hooks,              \* the useMemo slots of Repeater, two per row position
    lastOp,             \* history: the last handler that ran and what it emitted
    \* ---- Numberfield ----
    numField,           \* the number field's definition (props.field, props.readonly)
    value,              \* props.value: the field's value in the form state
    stringValueCache,   \* useState('') of Numberfield
    lastNum             \* history: the last Numberfield handler that ran

repeatVars == <<field, data, sharedRepeatState, rendered, parent, hooks, lastOp>>

numVars == <<numField, value, stringValueCache, lastNum>>

(***************************************************************************)
(* JavaScript array helpers, over sequences (JS index k is position k+1).  *)
(***************************************************************************)
Min(a, b) == IF a <= b THEN a ELSE b
Max(a, b) == IF a >= b THEN a ELSE b

\* ToIntegerOrInfinity + the relative-index rule shared by slice and splice
RelativeIndex(k, len) == IF k < 0 THEN Max(len + k, 0) ELSE Min(k, len)

\* Array.prototype.slice(begin, end)
slice(arr, begin, end) ==
    SubSeq(arr, RelativeIndex(begin, Len(arr)) + 1, RelativeIndex(end, Len(arr)))

\* Array.prototype.splice(index, 1) applied to a copy: the array that remains
splice(arr, index) ==
    LET start == RelativeIndex(index, Len(arr))
        deleteCount == Min(1, Len(arr) - start)
    IN  SubSeq(arr, 1, start) \o SubSeq(arr, start + deleteCount + 1, Len(arr))

\* Array.prototype.push(item) applied to a copy
push(arr, item) == Append(arr, item)

(***************************************************************************)
(* Field definitions and data items.                                       *)
(***************************************************************************)
\* a configured nonCollapsedItems: absent (undefined) or an integer
NoCap == [defined |-> FALSE, n |-> 0]
Cap(n) == [defined |-> TRUE, n |-> n]

\* JavaScript truthiness of field.nonCollapsedItems
Truthy(c) == c.defined /\ c.n # 0

\* the configurations a form schema may carry, malformed ones included
CapConfigs == {NoCap} \cup {Cap(n) : n \in (-1)..MaxCap}

Fields ==
    [id : {0},
     nonCollapsedItems : CapConfigs,
     disableCollapse : BOOLEAN,
     allowAddRemove : BOOLEAN]

\* repeaters of every nesting level, with items that can be added and removed
NestedFields ==
    [id : 0..MaxDepth,
     nonCollapsedItems : {Cap(n) : n \in 1..MaxCap},
     disableCollapse : BOOLEAN,
     allowAddRemove : {TRUE}]

\* an item of the backing array as the form was loaded with it
InitialItem(k) == [kind |-> "initial", n |-> k]

InitialData(len) == [k \in 1..len |-> InitialItem(k)]

\* form._getInitializedFieldData(data, { container, indexes: {..., [id]: index} })
\* (the new item's default content depends on its position; the model keeps
\* the position's parity in the item and the whole index in lastOp.index)
getInitializedFieldData(index) == [kind |-> "added", n |-> index % 2]

(***************************************************************************)
(* RepeatRenderManager._getNonCollapsedItems                               *)
(***************************************************************************)
DEFAULT_NON_COLLAPSED_ITEMS == 5

getNonCollapsedItems(f) ==
    IF Truthy(f.nonCollapsedItems)
    THEN f.nonCollapsedItems.n
    ELSE DEFAULT_NON_COLLAPSED_ITEMS

(***************************************************************************)
(* What Repeater and RepeatFooter compute in a render (both compute the    *)
(* same values from the same reads).                                       *)
(***************************************************************************)
\* const values = get(data, dataPath) || []
values == rendered.values

nonCollapsedItems == getNonCollapsedItems(field)

collapseEnabled ==
    ~field.disableCollapse /\ Len(values) > nonCollapsedItems

isCollapsed == collapseEnabled /\ rendered.isCollapsed

displayValues ==
    IF isCollapsed THEN slice(values, 0, nonCollapsedItems) ELSE values

\* hasChildren is taken as true: showRemove / showAdd = allowAddRemove
showRemove == field.allowAddRemove
showAdd == field.allowAddRemove

(***************************************************************************)
(* The rows of Repeater: displayValues.map((value, index) => ...).         *)
(* A field id is the nesting level of its repeater (0 the outermost); an   *)
(* index path is a sequence of [id, index] entries in insertion order.     *)
(***************************************************************************)
\* props.indexes of a repeater that is not nested: undefined
NoIndexes == [defined |-> FALSE, path |-> <<>>]

\* createContext's default for LocalExpressionContext, as far as i goes
TopLevel == [indexes |-> NoIndexes, i |-> <<>>]

\* { ...(indexes || {}), [ repeaterField.id ]: index }
rowIndexes(indexes, id, index) ==
    [defined |-> TRUE,
     path |-> SelectSeq(IF indexes.defined THEN indexes.path ELSE <<>>,
                        LAMBDA e : e.id # id)
              \o <<[id |-> id, index |-> index]>>]

\* { this: value, i: [ ...parentExpressionContextInfo.i, index + 1 ] }; the
\* data and parent members come from the enclosing context alone
rowContextZeroBased(info, item, index) ==
    [this |-> item, i |-> Append(info.i, index)]

rowContext(info, item, index) ==
    [this |-> item, i |-> Append(info.i, index + 1)]

\* what a repeater of level `level` is handed when its ancestors' rows are
\* rendered by this same code: the ancestor of level j shows the row j
RECURSIVE Enclosing(_)
Enclosing(level) ==
    IF level = 0 THEN TopLevel
    ELSE LET outer == Enclosing(level - 1)
         IN  [indexes |-> rowIndexes(outer.indexes, level - 1, level - 1),
              i |-> rowContext(outer, InitialItem(level), level - 1).i]

\* useMemo(factory, args) on a slot: the kept value unless the args changed
useMemo(slot, args, computed) ==
    IF slot.filled /\ slot.args = args THEN slot
    ELSE [filled |-> TRUE, args |-> args, value |-> computed]

EmptySlot == [filled |-> FALSE, args |-> <<>>, value |-> <<>>]

EmptyRow == [elementProps |-> EmptySlot, localExpressionContextInfo |-> EmptySlot]

\* the two useMemo calls of the row at `index` showing `item`
renderRow(row, item, index) ==
    [elementProps |->
         useMemo(row.elementProps, <<index>>,
                 rowIndexes(parent.indexes, field.id, index)),
     localExpressionContextInfo |->
         useMemo(row.localExpressionContextInfo, <<index, item>>,
                 rowContext(parent, item, index))]

\* the hook slots after a render that shows `shown`: slots of positions no
\* longer shown are kept as they are
renderRows(slots, shown) ==
    [k \in 1..Max(Len(slots), Len(shown)) |->
        IF k <= Len(shown)
        THEN renderRow(IF k <= Len(slots) THEN slots[k] ELSE EmptyRow,
                       shown[k], k - 1)
        ELSE slots[k]]

(***************************************************************************)
(* History records.                                                        *)
(***************************************************************************)
\* op: the handler; index: its argument; emitted: whether it called onChange;
\* rerendered: whether a render followed it
NoOp == [op |-> "none", index |-> 0, emitted |-> FALSE, rerendered |-> FALSE]

(***************************************************************************)
(* Actions of the repeater.                                                *)
(***************************************************************************)
FirstRender(f) ==
    /\ field = f
    /\ parent = Enclosing(f.id)
    /\ \E len \in 0..MaxItems : data = InitialData(len)
    /\ sharedRepeatState \in [isCollapsed : BOOLEAN]
    /\ rendered = [values |-> data, isCollapsed |-> sharedRepeatState.isCollapsed]
    /\ hooks = renderRows(<<>>, displayValues)
    /\ lastOp = NoOp

RepeatInit == \E f \in Fields : FirstRender(f)

NestedInit == \E f \in NestedFields : FirstRender(f)

\* A (re-)render of Repeater and RepeatFooter: reads the form state and the
\* shared state; the handlers created here close over these reads.
Render ==
    /\ UNCHANGED <<field, data, sharedRepeatState, parent>>
    /\ rendered' = [values |-> data, isCollapsed |-> sharedRepeatState.isCollapsed]
    /\ hooks' = renderRows(hooks, displayValues')
    /\ lastOp' = [lastOp EXCEPT !.index = 0, !.rerendered = TRUE]

\* a form that turns down a request computed from an array it no longer holds
onChangeCompareAndSet(updatedValues) ==
    data' = IF data = values THEN updatedValues ELSE data

\* props.onChange({ field, value, indexes }): the form replaces the array
onChange(updatedValues) == data' = updatedValues

\* Repeater.onDeleteItem(index)
onDeleteItemValueOffByOne(index) == splice(values, index + 1)

onDeleteItemValue(index) == splice(values, index)

onDeleteItem(index) ==
    /\ showRemove
    /\ onChange(onDeleteItemValue(index))
    /\ lastOp' = [op |-> "remove", index |-> index, emitted |-> TRUE,
                  rerendered |-> FALSE]
    /\ UNCHANGED <<field, sharedRepeatState, rendered, parent, hooks>>

\* RepeatFooter.onAddItem
onAddItemValueUnshift ==
    <<getInitializedFieldData(Len(values))>> \o values

onAddItemValue == push(values, getInitializedFieldData(Len(values)))

onAddItemState == [sharedRepeatState EXCEPT !.isCollapsed = FALSE]

onAddItem ==
    /\ showAdd
    /\ Len(values) < MaxItems
    /\ onChange(onAddItemValue)
    /\ sharedRepeatState' = onAddItemState
    /\ lastOp' = [op |-> "add", index |-> Len(values), emitted |-> TRUE,
                  rerendered |-> FALSE]
    /\ UNCHANGED <<field, rendered, parent, hooks>>

\* RepeatFooter.toggle: the collapse button exists only when collapseEnabled
toggleState == [sharedRepeatState EXCEPT !.isCollapsed = ~isCollapsed]

toggle ==
    /\ collapseEnabled
    /\ sharedRepeatState' = toggleState
    /\ lastOp' = [op |-> "toggle", index |-> 0, emitted |-> FALSE,
                  rerendered |-> FALSE]
    /\ UNCHANGED <<field, data, rendered, parent, hooks>>

\* the indexes a caller may hand to onDeleteItem; the rendered rows hand
\* 0 .. Len(displayValues)-1
DeleteIndexes == (-1)..MaxItems


(***************************************************************************)
(* Numberfield: texts, numbers and values.                                 *)
(* A text is a sequence of characters.  A number is an integer count of    *)
(* 10^-Decimals, which holds every number a text of the model denotes.     *)
(***************************************************************************)
Chars == {"0", "1", "-", ".", ",", " "}

Texts == UNION {[1..k -> Chars] : k \in 0..MaxLen}

Digits == <<"0", "1", "2", "3", "4", "5", "6", "7", "8", "9">>

IsDigit(c) == \E d \in 1..10 : Digits[d] = c

DigitValue(c) == (CHOOSE d \in 1..10 : Digits[d] = c) - 1

RECURSIVE Pow10(_)
Pow10(k) == IF k <= 0 THEN 1 ELSE 10 * Pow10(k - 1)

Decimals == MaxLen - 1

Scale == Pow10(Decimals)

Minus == <<"-">>

NaNText == <<"N", "a", "N">>

\* the values a form state holds for the field
NullValue == [t |-> "null", n |-> 0, s |-> <<>>]
Num(n) == [t |-> "num", n |-> n, s |-> <<>>]
Str(s) == [t |-> "str", n |-> 0, s |-> s]

SetMin(S) == CHOOSE x \in S : \A y \in S : x <= y
SetMax(S) == CHOOSE x \in S : \A y \in S : x >= y

\* String.prototype.trim, as Number() applies it to its argument
Trim(s) ==
    LET idx == {i \in 1..Len(s) : s[i] # " "}
    IN  IF idx = {} THEN <<>> ELSE SubSeq(s, SetMin(idx), SetMax(idx))

\* stringValue.replaceAll(',', '.')
replaceAll(s) == [i \in 1..Len(s) |-> IF s[i] = "," THEN "." ELSE s[i]]

RECURSIVE DigitsValue(_)
DigitsValue(ds) ==
    IF ds = <<>> THEN 0
    ELSE 10 * DigitsValue(SubSeq(ds, 1, Len(ds) - 1)) + DigitValue(ds[Len(ds)])

\* a decimal literal without sign: digits, at most one point, a digit at least
IsUnsignedDecimal(b) ==
    /\ \A i \in 1..Len(b) : IsDigit(b[i]) \/ b[i] = "."
    /\ Cardinality({i \in 1..Len(b) : b[i] = "."}) <= 1
    /\ \E i \in 1..Len(b) : IsDigit(b[i])

UnsignedValue(b) ==
    LET dots == {i \in 1..Len(b) : b[i] = "."}
        p == IF dots = {} THEN Len(b) + 1 ELSE SetMin(dots)
        int == SubSeq(b, 1, p - 1)
        frac == SubSeq(b, p + 1, Min(Len(b), p + Decimals))
    IN  DigitsValue(int) * Scale + DigitsValue(frac) * Pow10(Decimals - Len(frac))

\* a literal with an optional leading minus sign
SignedValue(t) ==
    IF t # <<>> /\ t[1] = "-"
    THEN [nan |-> ~IsUnsignedDecimal(Tail(t)),
          n |-> IF IsUnsignedDecimal(Tail(t)) THEN -UnsignedValue(Tail(t)) ELSE 0]
    ELSE [nan |-> ~IsUnsignedDecimal(t),
          n |-> IF IsUnsignedDecimal(t) THEN UnsignedValue(t) ELSE 0]

\* Number(text): white space is trimmed, the empty text is 0, any other text
\* that is no decimal literal is NaN
Number(s) ==
    IF Trim(s) = <<>> THEN [nan |-> FALSE, n |-> 0] ELSE SignedValue(Trim(s))

\* big.js: Big(text) accepts -?(\d+(\.\d*)?|\.\d+) and throws on anything else
BigAccepts(s) == s # <<>> /\ ~SignedValue(s).nan

RECURSIVE IntDigits(_)
IntDigits(k) ==
    IF k < 10 THEN <<Digits[k + 1]>>
    ELSE IntDigits(k \div 10) \o <<Digits[(k % 10) + 1]>>

\* the digits of the fraction f / 10^width, trailing zeros dropped
RECURSIVE FracDigits(_, _)
FracDigits(f, width) ==
    IF f = 0 \/ width = 0 THEN <<>>
    ELSE <<Digits[(f \div Pow10(width - 1)) + 1]>>
         \o FracDigits(f % Pow10(width - 1), width - 1)

\* Big(n).toFixed(), which is also Number.prototype.toString in this range
toFixed(n) ==
    LET a == IF n < 0 THEN -n ELSE n
        frac == FracDigits(a % Scale, Decimals)
    IN  (IF n < 0 THEN <<"-">> ELSE <<>>)
        \o IntDigits(a \div Scale)
        \o (IF frac = <<>> THEN <<>> ELSE <<".">> \o frac)

(***************************************************************************)
(* numberFieldUtil (the file is not among the sources; from the            *)
(* specification's description of sanitize and setFromInput).              *)
(***************************************************************************)
\* absent, empty or white-space text
isNullEquivalentValue(v) ==
    v.t = "null" \/ (v.t = "str" /\ Trim(v.s) = <<>>)

\* a number, or a text that parses as one
isValidNumber(v) ==
    v.t = "num" \/ (v.t = "str" /\ v.s # <<>> /\ ~Number(v.s).nan)

(***************************************************************************)
(* Numberfield                                                             *)
(***************************************************************************)
\* field.increment / field.decimalDigits: absent or a number
NoValue == [defined |-> FALSE, n |-> 0]
Defined(n) == [defined |-> TRUE, n |-> n]

StepConfigs ==
    {[increment |-> NoValue, decimalDigits |-> NoValue],
     [increment |-> NoValue, decimalDigits |-> Defined(1)],
     [increment |-> Defined(Scale \div 2), decimalDigits |-> Defined(1)]}

NumFields ==
    {[serializeToString |-> ser, readonly |-> ro,
      increment |-> c.increment, decimalDigits |-> c.decimalDigits] :
        ser \in BOOLEAN, ro \in BOOLEAN, c \in StepConfigs}

\* value.toString()
valueToString(v) == IF v.t = "num" THEN toFixed(v.n) ELSE v.s

\* Number(value)
valueToNumber(v) == IF v.t = "num" THEN v.n ELSE Number(v.s).n

\* Numberfield.config.sanitizeValue({ value, formField })
sanitizeValue(v, formField) ==
    IF isNullEquivalentValue(v) \/ ~isValidNumber(v) THEN NullValue
    ELSE IF formField.serializeToString THEN Str(valueToString(v))
    ELSE Num(valueToNumber(v))

cacheValueMatchesState(cache, v, formField) ==
    sanitizeValue(v, formField) = sanitizeValue(Str(cache), formField)

\* what a render shows: a text, or the render throws (Big rejects the value)
Shown(s) == [threw |-> FALSE, s |-> s]
Threw == [threw |-> TRUE, s |-> <<>>]

\* Big(value).toFixed()
bigToFixed(v) ==
    IF v.t = "num" THEN Shown(toFixed(v.n))
    ELSE IF BigAccepts(v.s) THEN Shown(toFixed(SignedValue(v.s).n))
    ELSE Threw

\* value || value === 0
valueOrZero(v) == v.t = "num" \/ (v.t = "str" /\ v.s # <<>>)

\* displayValue that shows a non-empty cache without comparing it
displayValueKeepsCache(cache, v, formField) ==
    IF v = Str(NaNText) THEN Shown(NaNText)
    ELSE IF cache = Minus THEN Shown(Minus)
    ELSE IF cache # <<>> THEN Shown(cache)
    ELSE IF valueOrZero(v) THEN bigToFixed(v)
    ELSE Shown(<<>>)

displayValueOf(cache, v, formField) ==
    IF v = Str(NaNText) THEN Shown(NaNText)
    ELSE IF cache = Minus THEN Shown(Minus)
    ELSE IF cacheValueMatchesState(cache, v, formField) THEN Shown(cache)
    ELSE IF valueOrZero(v) THEN bigToFixed(v)
    ELSE Shown(<<>>)

displayValue == displayValueOf(stringValueCache, value, numField)

\* arrowIncrementValue
arrowIncrementValue(formField) ==
    IF formField.increment.defined /\ formField.increment.n # 0
    THEN formField.increment.n
    ELSE IF formField.decimalDigits.defined /\ formField.decimalDigits.n # 0
    THEN Scale \div Pow10(formField.decimalDigits.n)
    ELSE Scale

\* the outcome of a handler: the next cache, and the value handed to onChange
Outcome(cache, emitted, v) == [cache |-> cache, emitted |-> emitted, value |-> v]

\* setValue without the isNaN branch
setValueNoNaNCheck(input, formField) ==
    IF isNullEquivalentValue(input) THEN Outcome(<<>>, TRUE, NullValue)
    ELSE LET stringValue == replaceAll(input.s)
         IN  IF stringValue = Minus
             THEN Outcome(Minus, FALSE, NullValue)
             ELSE Outcome(stringValue, TRUE,
                          IF formField.serializeToString
                          THEN Str(stringValue)
                          ELSE Num(Number(stringValue).n))

\* setValue without replaceAll(',', '.')
setValueNoCommas(input, formField) ==
    IF isNullEquivalentValue(input) THEN Outcome(<<>>, TRUE, NullValue)
    ELSE LET stringValue == input.s
         IN  IF stringValue = Minus
             THEN Outcome(Minus, FALSE, NullValue)
             ELSE IF Number(stringValue).nan
             THEN Outcome(NaNText, TRUE, Str(NaNText))
             ELSE Outcome(stringValue, TRUE,
                          IF formField.serializeToString
                          THEN Str(stringValue)
                          ELSE Num(Number(stringValue).n))

\* setValue without the branch that buffers a lone "-"
setValueNoMinus(input, formField) ==
    IF isNullEquivalentValue(input) THEN Outcome(<<>>, TRUE, NullValue)
    ELSE LET stringValue == replaceAll(input.s)
         IN  IF Number(stringValue).nan
             THEN Outcome(NaNText, TRUE, Str(NaNText))
             ELSE Outcome(stringValue, TRUE,
                          IF formField.serializeToString
                          THEN Str(stringValue)
                          ELSE Num(Number(stringValue).n))

\* setValue(stringValue), stringValue a text or null
setValue(input, formField) ==
    IF isNullEquivalentValue(input) THEN Outcome(<<>>, TRUE, NullValue)
    ELSE LET stringValue == replaceAll(input.s)
         IN  IF stringValue = Minus
             THEN Outcome(Minus, FALSE, NullValue)
             ELSE IF Number(stringValue).nan
             THEN Outcome(NaNText, TRUE, Str(NaNText))
             ELSE Outcome(stringValue, TRUE,
                          IF formField.serializeToString
                          THEN Str(stringValue)
                          ELSE Num(Number(stringValue).n))

\* Big.prototype.mod: the remainder has the sign of the dividend
bigMod(a, b) == IF a >= 0 THEN a % b ELSE -((-a) % b)

\* const base = isValidNumber(value) ? Big(value) : Big(0)
baseThrows(v) == isValidNumber(v) /\ v.t = "str" /\ ~BigAccepts(v.s)

baseOf(v) == IF isValidNumber(v) THEN valueToNumber(v) ELSE 0

\* the text increment() hands to setValue
incrementText(v, formField) ==
    LET base == baseOf(v)
        step == arrowIncrementValue(formField)
        stepFlooredValue == base - bigMod(base, step)
    IN  toFixed(stepFlooredValue + step)

\* the text decrement() hands to setValue
decrementText(v, formField) ==
    LET base == baseOf(v)
        step == arrowIncrementValue(formField)
        offset == bigMod(base, step)
    IN  IF offset = 0 THEN toFixed(base - step) ELSE toFixed(base - offset)

NoNum == [op |-> "none", input |-> NullValue, emitted |-> FALSE, threw |-> FALSE]

\* values the form state may hold for the field from outside the component
\* (imported data, a reset, another writer)
ExternalValues ==
    {NullValue, Str(NaNText), Num(0), Num(Scale), Num(-((3 * Scale) \div 2)),
     Str(<<"1">>), Str(<<"1", ".", "0">>), Str(<<" ", "1">>),
     Str(<<".", "1">>), Str(<<"-", "-">>)}

NumInit ==
    /\ numField \in NumFields
    /\ value \in ExternalValues
    /\ stringValueCache = <<>>
    /\ lastNum = NoNum

\* a handler ran setValue(input): the cache and the form state follow
Apply(op, input) ==
    LET out == setValue(input, numField)
    IN  /\ stringValueCache' = out.cache
        /\ value' = IF out.emitted THEN out.value ELSE value
        /\ lastNum' = [op |-> op, input |-> input, emitted |-> out.emitted,
                       threw |-> FALSE]
        /\ UNCHANGED numField

\* the handler threw before calling setValue
Abort(op) ==
    /\ lastNum' = [op |-> op, input |-> NullValue, emitted |-> FALSE,
                   threw |-> TRUE]
    /\ UNCHANGED <<numField, value, stringValueCache>>

\* onInput={ (e) => setValue(e.target.value) }: typed or pasted text; the
\* input element is readOnly when the field is
onInput(text) ==
    /\ ~numField.readonly
    /\ Apply("input", Str(text))

\* onKeyDown with Backspace or Delete while the value is 'NaN'
onKeyDownDelete ==
    /\ value = Str(NaNText)
    /\ Apply("delete", NullValue)

WithinRange(v) ==
    baseOf(v) <= MaxAbs * Scale /\ baseOf(v) >= -(MaxAbs * Scale)

increment ==
    /\ ~numField.readonly
    /\ WithinRange(value)
    /\ IF baseThrows(value) THEN Abort("increment")
       ELSE Apply("increment", Str(incrementText(value, numField)))

decrement ==
    /\ ~numField.readonly
    /\ WithinRange(value)
    /\ IF baseThrows(value) THEN Abort("decrement")
       ELSE Apply("decrement", Str(decrementText(value, numField)))

\* the form state changes under the component (props.value)
externalChange(v) ==
    /\ value' = v
    /\ lastNum' = [op |-> "external", input |-> NullValue, emitted |-> FALSE,
                   threw |-> FALSE]
    /\ UNCHANGED <<numField, stringValueCache>>

\* the texts typed or pasted in the component's life: one or more of every
\* class setValue tells apart
TypedTexts ==
    {<<>>, <<" ">>, <<"-">>, <<"1">>, <<"0">>, <<"-", "1">>, <<"-", "0">>,
     <<"1", ".", "0">>, <<"1", ",", "0">>, <<"1", ".">>, <<".", "1">>,
     <<"-", ".", "1">>, <<",">>, <<"-", "-">>, <<"1", "-">>, <<" ", "1">>,
     <<"-", " ">>, <<"1", " ", "1">>, <<"0", "1">>}

(***************************************************************************)
(* Specifications: the repeater (Spec) and the number field (NumSpec);     *)
(* each leaves the other component idle.                                   *)
(***************************************************************************)
vars == <<repeatVars, numVars>>

NumIdle ==
    /\ numField = [serializeToString |-> FALSE, readonly |-> FALSE,
                   increment |-> NoValue, decimalDigits |-> NoValue]
    /\ value = NullValue
    /\ stringValueCache = <<>>
    /\ lastNum = NoNum

RepeatIdle ==
    /\ field = [id |-> 0, nonCollapsedItems |-> NoCap,
                disableCollapse |-> FALSE, allowAddRemove |-> FALSE]
    /\ data = <<>>
    /\ sharedRepeatState = [isCollapsed |-> TRUE]
    /\ rendered = [values |-> <<>>, isCollapsed |-> TRUE]
    /\ parent = TopLevel
    /\ hooks = <<>>
    /\ lastOp = NoOp

Init == RepeatInit /\ NumIdle

Next ==
    \/ Render /\ UNCHANGED numVars
    \/ \E index \in DeleteIndexes : onDeleteItem(index) /\ UNCHANGED numVars
    \/ onAddItem /\ UNCHANGED numVars
    \/ toggle /\ UNCHANGED numVars

Spec == Init /\ [][Next]_vars

\* the repeater at every nesting level
NestedSpecInit == NestedInit /\ NumIdle

NestedSpec == NestedSpecInit /\ [][Next]_vars

NumSpecInit == NumInit /\ RepeatIdle

NumSpecNext ==
    \/ \E text \in TypedTexts : onInput(text) /\ UNCHANGED repeatVars
    \/ onKeyDownDelete /\ UNCHANGED repeatVars
    \/ increment /\ UNCHANGED repeatVars
    \/ decrement /\ UNCHANGED repeatVars
    \/ \E v \in ExternalValues : externalChange(v) /\ UNCHANGED repeatVars

NumSpec == NumSpecInit /\ [][NumSpecNext]_vars

\* setValue as a function of its input: every text of the alphabet up to
\* MaxLen, handed once to a component in any initial state
InputSpecNext ==
    \E text \in Texts :
        /\ lastNum = NoNum
        /\ onInput(text)
        /\ UNCHANGED repeatVars

InputSpec == NumSpecInit /\ [][InputSpecNext]_vars

(***************************************************************************)
(* Claims about the repeater.                                              *)
(***************************************************************************)
\* effectiveCap as the specification defines it: the configured value if it
\* is a positive integer, else 5
SpecEffectiveCap(f) ==
    IF f.nonCollapsedItems.defined /\ f.nonCollapsedItems.n > 0
    THEN f.nonCollapsedItems.n
    ELSE 5

IsPrefix(s, t) == Len(s) <= Len(t) /\ s = SubSeq(t, 1, Len(s))

\* the last handler ran against the render that is still on screen
Fresh(op) == lastOp.op = op /\ ~lastOp.rerendered

\* C1: with N the effective cap and L the length of the backing array, the
\* repeater is collapsible iff disableCollapse is false and L > N; the
\* rendered items are the first min(L, N) items when collapsible and
\* isCollapsed, and all L items otherwise; the rendered list is a prefix of
\* the backing array.
C1_VisibleSlice ==
    LET N == SpecEffectiveCap(field)
        L == Len(values)
        collapsible == ~field.disableCollapse /\ L > N
    IN  /\ collapseEnabled <=> collapsible
        /\ displayValues =
              IF collapsible /\ rendered.isCollapsed
              THEN SubSeq(values, 1, Min(L, N))
              ELSE values
        /\ IsPrefix(displayValues, values)

\* C2: onAddItem emits an array of length L+1 whose first L elements are
\* the items the render read, in order, and whose last element is the item
\* initialized with index L; afterwards the shared isCollapsed flag is
\* false, and the render that follows shows the new item.
C2_AddAppends ==
    LET L == Len(values)
    IN  /\ Fresh("add") =>
              /\ lastOp.emitted
              /\ lastOp.index = L
              /\ Len(data) = L + 1
              /\ SubSeq(data, 1, L) = values
              /\ data[L + 1] = getInitializedFieldData(L)
              /\ ~sharedRepeatState.isCollapsed
        /\ (lastOp.op = "add" /\ lastOp.rerendered) =>
              /\ ~sharedRepeatState.isCollapsed
              /\ displayValues = data
              /\ L >= 1
              /\ displayValues[L].kind = "added"

C2_Witness ==
    /\ Fresh("add")
    /\ isCollapsed
    /\ Len(values) >= 2
    /\ values[1].kind = "initial"

\* C3: onDeleteItem(i) with 0 <= i < L emits an array of length L-1 that is
\* the array the render read with only the element at position i excised,
\* the others keeping their order; a row displayed at position i shows
\* that element, also while collapsed.
C3_RemoveExcises ==
    LET L == Len(values)
        i == lastOp.index
    IN  (Fresh("remove") /\ i \in 0..(L - 1)) =>
            /\ lastOp.emitted
            /\ Len(data) = L - 1
            /\ \A k \in 1..i : data[k] = values[k]
            /\ \A k \in (i + 1)..(L - 1) : data[k] = values[k + 1]
            /\ i < Len(displayValues) => displayValues[i + 1] = values[i + 1]

C3_Witness ==
    /\ Fresh("remove")
    /\ isCollapsed
    /\ lastOp.index = 1
    /\ Len(displayValues) = 2
    /\ Len(values) = 3
    /\ data = <<values[1], values[3]>>

C5_EffectiveCapPositive ==
    /\ nonCollapsedItems > 0
    /\ nonCollapsedItems = SpecEffectiveCap(field)

\* C6: toggle inverts the shared isCollapsed flag and leaves the backing
\* array alone; removeItem never changes the flag.  (Stated for fields whose
\* configured cap is well-formed, where the cap's handling plays no part.)
C6_ToggleInverts ==
    [][/\ (/\ lastOp'.op = "toggle" /\ ~lastOp'.rerendered /\ lastOp' # lastOp
           /\ nonCollapsedItems = SpecEffectiveCap(field)) =>
            /\ sharedRepeatState'.isCollapsed = ~sharedRepeatState.isCollapsed
            /\ data' = data
       /\ (lastOp'.op = "remove" /\ ~lastOp'.rerendered) =>
            sharedRepeatState' = sharedRepeatState]_vars

(***************************************************************************)
(* Claims about the number field.                                          *)
(***************************************************************************)
\* a text that denotes a number
IsNumberText(s) == Trim(s) # <<>> /\ ~Number(s).nan

AllDigits(s) == s # <<>> /\ \A i \in 1..Len(s) : IsDigit(s[i])

\* C7: every value handed to onChange is absent (null), a number, the text
\* of a number or the sentinel "NaN"; the fragment "-" is never handed over.
C7_EmittedValueCanonical ==
    lastNum.emitted =>
        /\ \/ value = NullValue
           \/ value.t = "num"
           \/ value = Str(NaNText)
           \/ value.t = "str" /\ IsNumberText(value.s)
        /\ value # Str(Minus)

C7_Witness ==
    /\ lastNum.op = "decrement"
    /\ lastNum.emitted
    /\ numField.serializeToString
    /\ value = Str(<<"-", "0", ".", "5">>)

\* C8: setValue classifies its text: commas count as periods; empty or
\* white-space text clears the cache and emits null; text that is no number
\* (other than a lone "-") emits the sentinel "NaN"; any other text emits
\* the parsed number (the text itself under serializeToString) and becomes
\* the cache.
C8_SetValueClassifies ==
    lastNum.op = "input" =>
        LET text == lastNum.input.s
            stringValue == replaceAll(text)
        IN  IF Trim(text) = <<>>
            THEN stringValueCache = <<>> /\ lastNum.emitted /\ value = NullValue
            ELSE IF stringValue = Minus
            THEN stringValueCache = Minus /\ ~lastNum.emitted
            ELSE IF ~IsNumberText(stringValue)
            THEN lastNum.emitted /\ value = Str(NaNText)
            ELSE /\ lastNum.emitted
                 /\ stringValueCache = stringValue
                 /\ value = IF numField.serializeToString
                            THEN Str(stringValue)
                            ELSE Num(Number(stringValue).n)

C8_Witness ==
    /\ lastNum.op = "input"
    /\ lastNum.input = Str(<<"1", ",", "0">>)
    /\ stringValueCache = <<"1", ".", "0">>
    /\ value = Num(Scale)

\* C9: a lone "-" becomes the cache and emits nothing, so the form value
\* stays; an input "-d" (d digits) that follows emits the number -d (as the
\* text "-d" under serializeToString) and becomes the cache; clearing sets
\* the cache to '' and emits null; while the cache is "-" the text shown is
\* "-" unless the form value is the sentinel "NaN".
C9_MinusBuffer ==
    /\ [](stringValueCache = Minus =>
            displayValue = IF value = Str(NaNText)
                           THEN Shown(NaNText) ELSE Shown(Minus))
    /\ [][/\ (lastNum'.op = "input" /\ lastNum'.input = Str(Minus)) =>
                /\ stringValueCache' = Minus
                /\ ~lastNum'.emitted
                /\ value' = value
          /\ (/\ stringValueCache = Minus
              /\ lastNum'.op = "input"
              /\ lastNum'.input.s # <<>>
              /\ lastNum'.input.s[1] = "-"
              /\ AllDigits(Tail(lastNum'.input.s))) =>
                /\ lastNum'.emitted
                /\ stringValueCache' = lastNum'.input.s
                /\ value' = IF numField.serializeToString
                            THEN Str(lastNum'.input.s)
                            ELSE Num(-(Scale * DigitsValue(Tail(lastNum'.input.s))))
          /\ (\/ lastNum'.op = "delete"
              \/ lastNum'.op = "input" /\ lastNum'.input = Str(<<>>)) =>
                /\ stringValueCache' = <<>>
                /\ lastNum'.emitted
                /\ value' = NullValue]_vars

C9_Witness ==
    /\ lastNum.op = "input"
    /\ lastNum.input = Str(Minus)
    /\ stringValueCache = Minus
    /\ value = Num(Scale)
    /\ displayValue = Shown(Minus)

SpecStep(f) ==
    IF f.increment.defined THEN f.increment.n
    ELSE IF f.decimalDigits.defined THEN Scale \div Pow10(f.decimalDigits.n)
    ELSE Scale

\* the nearest step boundary at or below base
StepFloor(base, k) == k * (base \div k)

\* a step of the handler op that ran to its call of setValue
Stepped(op) == lastNum'.op = op /\ lastNum' # lastNum /\ ~lastNum'.threw

\* C11: increment emits (nearest step boundary at or below base) + k, a
\* multiple of k strictly greater than base and at most base + k, for every
\* base, negative and off-step ones included; a readonly field emits nothing.
C11_IncrementSteps ==
    [][Stepped("increment") =>
          LET base == baseOf(value)
              k == SpecStep(numField)
              new == valueToNumber(value')
          IN  /\ ~numField.readonly
              /\ lastNum'.emitted
              /\ isValidNumber(value')
              /\ new = StepFloor(base, k) + k
              /\ new % k = 0
              /\ new > base
              /\ new <= base + k]_vars

\* C12: decrement emits base - k when base is on a step boundary, else the
\* nearest step boundary below base; the value never rises and never passes
\* a boundary over.
C12_DecrementSteps ==
    [][Stepped("decrement") =>
          LET base == baseOf(value)
              k == SpecStep(numField)
              new == valueToNumber(value')
          IN  /\ lastNum'.emitted
              /\ isValidNumber(value')
              /\ new = IF base % k = 0 THEN base - k ELSE StepFloor(base, k)
              /\ new % k = 0
              /\ new < base
              /\ new >= base - k]_vars

(***************************************************************************)
(* Claims about the rows' index paths and expression contexts.             *)
(***************************************************************************)
\* the index path the enclosing level hands down ({} when there is none)
ParentPath == IF parent.indexes.defined THEN parent.indexes.path ELSE <<>>

\* C13: whatever was added, removed or toggled, the row rendered at position
\* k (0-based) carries the parent index path extended with {field id -> k},
\* the parent path being left as it was, and an expression context with
\* this = the backing item at position k and i = parent.i followed by k + 1,
\* one entry per enclosing repeater and one for this one.
C13_RowContexts ==
    /\ parent = Enclosing(field.id)
    /\ Len(hooks) >= Len(displayValues)
    /\ \A k \in 0..(Len(displayValues) - 1) :
          LET row == hooks[k + 1]
              indexes == row.elementProps.value
              context == row.localExpressionContextInfo.value
          IN  /\ indexes.defined
              /\ indexes.path =
                     ParentPath \o <<[id |-> field.id, index |-> k]>>
              /\ context.this = values[k + 1]
              /\ lastOp.rerendered => context.this = data[k + 1]
              /\ context.i = parent.i \o <<k + 1>>
              /\ Len(context.i) = field.id + 1

\* a nested repeater re-rendered after a removal: the first row shows what
\* was the second item, and a slot of a row no longer shown is left behind
C13_Witness ==
    /\ field.id = MaxDepth
    /\ lastOp.op = "remove"
    /\ lastOp.rerendered
    /\ Len(displayValues) = 2
    /\ Len(hooks) = 3
    /\ hooks[1].localExpressionContextInfo.value =
           [this |-> InitialItem(2), i |-> Append(parent.i, 1)]
    /\ hooks[2].elementProps.value.path =
           Append(ParentPath, [id |-> MaxDepth, index |-> 1])

(***************************************************************************)
(* Claims about the mutation requests.                                     *)
(***************************************************************************)
\* C14: add and remove propose a whole array computed from a copy of the
\* array read at render time, which itself stays as it was; requests apply
\* in the order issued, and of two requests issued against the same render
\* the later one overwrites the earlier: the form state is the array the
\* last request proposed, whatever the form held before it.
C14_LastWriterWins ==
    [][(/\ lastOp'.op \in {"add", "remove"}
        /\ ~lastOp'.rerendered
        /\ lastOp' # lastOp) =>
          /\ rendered' = rendered
          /\ lastOp'.emitted
          /\ lastOp'.op = "add" =>
                data' = Append(values, getInitializedFieldData(Len(values)))
          /\ (/\ lastOp'.op = "remove"
              /\ lastOp'.index >= 0
              /\ lastOp'.index < Len(values)) =>
                data' = SubSeq(values, 1, lastOp'.index)
                        \o SubSeq(values, lastOp'.index + 2, Len(values))]_vars

\* an item was added and then, against the same render, one was removed:
\* the form holds the rendered array less one item, the added item is gone
C14_Witness ==
    /\ field.disableCollapse
    /\ rendered.isCollapsed
    /\ ~sharedRepeatState.isCollapsed
    /\ lastOp.op = "remove"
    /\ ~lastOp.rerendered
    /\ Len(values) = 2
    /\ data = <<values[2]>>

====
